---- MODULE Spec2Model ----
(***************************************************************************)
(* A model of github.com/nrednav/cuid2 (src/cuid2.go).                     *)
(*                                                                         *)
(* Representation.                                                         *)
(*   string   a sequence of byte values (Go strings are byte sequences)    *)
(*   int64    four 16-bit limbs, most significant first, two's complement  *)
(*   float64  a numerator over FloatDen (exact rational arithmetic)        *)
(*   SHA3-512 an unknown member of a small family of digest functions,     *)
(*            fixed by the variable sha3 for a whole behaviour             *)
(***************************************************************************)
EXTENDS Integers, Sequences, FiniteSets, TLC

\* ------------------------------------------------------------ constants

DefaultIdLength == 24
MinIdLength == 2
MaxIdLength == 32
MaxSessionCount == 476782367
Base36 == 36
AlphabetSize == 26

\* ---------------------------------------------------------------- bytes

ByteMinus == 45
ByteEquals == 61
LowerLetters == 97..122
DecimalDigits == 48..57

\* strconv's digit table "0123456789abcdefghijklmnopqrstuvwxyz"
Digit36(d) == IF d < 10 THEN 48 + d ELSE 87 + d

\* ---------------------------------------------------------------- int64

Limb == 65536
SignLimb == 32768

\* the carry of v + 1 from limb i upwards
RECURSIVE Inc64At(_, _)
Inc64At(v, i) ==
  IF i = 0 THEN v
  ELSE IF v[i] = Limb - 1 THEN Inc64At([v EXCEPT ![i] = 0], i - 1)
  ELSE [v EXCEPT ![i] = v[i] + 1]

\* an add that stays at the greatest int64 instead of wrapping
Inc64Saturating(v) ==
  IF v = <<SignLimb - 1, Limb - 1, Limb - 1, Limb - 1>> THEN v
  ELSE Inc64At(v, 4)

\* v + 1 in 64-bit two's complement (wraps from MaxInt64 to MinInt64)
Inc64(v) == Inc64At(v, 4)

Neg64(v) == Inc64([i \in 1..4 |-> Limb - 1 - v[i]])

\* int64(n) for a model integer n with |n| < 2^31
I64(n) ==
  IF n >= 0 THEN <<0, 0, n \div Limb, n % Limb>>
  ELSE Neg64(<<0, 0, (-n) \div Limb, (-n) % Limb>>)

MaxInt64 == <<SignLimb - 1, Limb - 1, Limb - 1, Limb - 1>>
MinInt64 == <<SignLimb, 0, 0, 0>>

IsNeg64(v) == v[1] >= SignLimb

\* signed comparison a < b
Less64(a, b) ==
  LET key(v) == [v EXCEPT ![1] = (v[1] + SignLimb) % Limb]
      ka == key(a)
      kb == key(b)
  IN \E i \in 1..4 : ka[i] < kb[i] /\ \A j \in 1..(i - 1) : ka[j] = kb[j]

\* unsigned quotient and remainder of a 64-bit magnitude by a small divisor
DivMod64(u, b) ==
  LET r1 == u[1] % b
      c2 == r1 * Limb + u[2]
      r2 == c2 % b
      c3 == r2 * Limb + u[3]
      r3 == c3 % b
      c4 == r3 * Limb + u[4]
  IN [quo |-> <<u[1] \div b, c2 \div b, c3 \div b, c4 \div b>>, rem |-> c4 % b]

RECURSIVE FormatUint(_, _)
FormatUint(u, base) ==
  LET dm == DivMod64(u, base)
  IN IF dm.quo = <<0, 0, 0, 0>> THEN <<Digit36(dm.rem)>>
     ELSE Append(FormatUint(dm.quo, base), Digit36(dm.rem))

\* strconv.FormatInt(v, base)
FormatInt(v, base) ==
  IF IsNeg64(v) THEN <<ByteMinus>> \o FormatUint(Neg64(v), base)
  ELSE FormatUint(v, base)

\* an add that hands back the value it found (the old value)
FetchThenAdd(v) == [value |-> Inc64(v), ret |-> v]

\* atomic.AddInt64(&value, 1): the word after the add, and the value the
\* call returns, which is the new value
AddInt64One(v) == [value |-> Inc64(v), ret |-> Inc64(v)]

\* a plain value++: the add works on what the word held when the call began
PlainAddReads(inMemory, atEntry) == atEntry

\* The word atomic.AddInt64 adds to: read in the same indivisible step that
\* writes it, so what it held when the call began does not matter.
AddInt64Reads(inMemory, atEntry) == inMemory

\* -------------------------------------------------------------- float64

\* A float64 x is modelled by the integer x * FloatDen.
FloatDen == 1000

\* A randomness source (func() float64) is a stream: the values it returns,
\* cyclically, and the number of draws made so far.
Sample(rf) == rf.cycle[(rf.pos % Len(rf.cycle)) + 1]
Advance(rf) == [rf EXCEPT !.pos = @ + 1]
Stream(cycle, pos) == [cycle |-> cycle, pos |-> pos]

\* int64(math.Floor(x * float64(max))), computed without leaving 32 bits
FloorMul(x, max) ==
  (x * (max \div FloatDen)) + ((x * (max % FloatDen)) \div FloatDen)

\* getRandomInt: int64(math.Floor(randomFunc() * float64(max)))
getRandomInt(rf, max) == FloorMul(Sample(rf), max)

\* getRandomAlphabet: alphabets[getRandomInt(randomFunc, AlphabetSize)];
\* an index outside the 26 letters is Go's "index out of range" panic.
\* the base-36 digit table in the place of the letters
alphabetsBase36 == [i \in 1..26 |-> Digit36(i - 1)]

alphabets == [i \in 1..26 |-> 96 + i]
AlphabetIndexOK(idx) == idx >= 0 /\ idx < Len(alphabets)
getRandomAlphabet(rf) == <<alphabets[getRandomInt(rf, AlphabetSize) + 1]>>

\* createEntropy: the loop appends the base-36 text of one draw until the
\* builder holds at least length bytes, then cuts it to length.  The result
\* carries the stream as the draws left it.
RECURSIVE EntropyLoop(_, _, _)
EntropyLoop(builder, length, rf) ==
  IF Len(builder) < length
  THEN EntropyLoop(builder \o FormatInt(I64(getRandomInt(rf, Base36)), Base36),
                   length, Advance(rf))
  ELSE [str |-> SubSeq(builder, 1, length), rf |-> rf]

\* a loop that fills the builder past length and does not cut it
createEntropyUncut(length, rf) == EntropyLoop(<<>>, length + 1, rf)

createEntropy(length, rf) == EntropyLoop(<<>>, length, rf)

\* ----------------------------------------------------------------- hash

VARIABLE sha3

\* big.Int.Text(36) of a 512-bit digest has at most 100 digits (36^99 <
\* 2^512 < 36^100).  Digests below 36^MaxIdLength, a 2^-341 fraction of the
\* 512-bit values, are left out of the family: for them the slice in generate
\* is out of range.
MaxDigestText == 100
MinDigestText == MaxIdLength + 1
DigestTextLens == <<MaxDigestText, MaxDigestText - 1, MinDigestText>>
DigestFns == 1..Len(DigestTextLens)

AbsorbMod == 65521

\* The state that absorbing input[lo..hi] leaves: every byte counts, with a
\* weight that depends on its place.
RECURSIVE Absorb(_, _, _)
Absorb(input, lo, hi) ==
  IF lo > hi THEN 0
  ELSE IF lo = hi THEN ((input[lo] + 1) * (1 + ((lo * lo) % 251))) % AbsorbMod
  ELSE LET mid == (lo + hi) \div 2
       IN (Absorb(input, lo, mid) + Absorb(input, mid + 1, hi)) % AbsorbMod

\* The digits of the digest that absorbing the input left at h: Text(36)
\* writes no leading zero.
Squeeze(h, step, len) ==
  [i \in 1..len |->
     Digit36(IF i = 1 THEN step ELSE (h + (i * step) + ((i * i) % 7)) % Base36)]

DigestOf(h) == Squeeze(h, 1 + (h % 35), DigestTextLens[sha3])

\* new(big.Int).SetBytes(sha3-512(input)).Text(Base36)
DigestText(input) ==
  DigestOf(((7919 * sha3) + Absorb(input, 1, Len(input))) % AbsorbMod)

\* a hash that keeps the digest's first digit
hashWhole(input) == DigestText(input)

\* hash: the digest's base-36 text without its first digit
hash(input) == Tail(DigestText(input))

\* ---------------------------------------------------------- fingerprint

\* getEnvironmentKeyString over os.Environ(): the text before the first '='
\* of each entry, sorted, joined without separator.
RECURSIVE IndexByte(_, _, _)
IndexByte(s, c, i) ==
  IF i > Len(s) THEN -1
  ELSE IF s[i] = c THEN i - 1
  ELSE IndexByte(s, c, i + 1)

EnvKey(variable) == SubSeq(variable, 1, IndexByte(variable, ByteEquals, 1))

\* a < b, bytewise (Go's string order)
RECURSIVE LessStr(_, _)
LessStr(a, b) ==
  IF b = <<>> THEN FALSE
  ELSE IF a = <<>> THEN TRUE
  ELSE IF Head(a) # Head(b) THEN Head(a) < Head(b)
  ELSE LessStr(Tail(a), Tail(b))

RECURSIVE InsertSorted(_, _)
InsertSorted(keys, k) ==
  IF keys = <<>> THEN <<k>>
  ELSE IF LessStr(k, Head(keys)) THEN <<k>> \o keys
  ELSE <<Head(keys)>> \o InsertSorted(Tail(keys), k)

\* the keys in the order of the enumeration
KeepOrder(keys) == keys

\* sort.Strings(keys)
RECURSIVE SortStrings(_)
SortStrings(keys) ==
  IF keys = <<>> THEN <<>>
  ELSE InsertSorted(SortStrings(Tail(keys)), Head(keys))

RECURSIVE Join(_)
Join(keys) == IF keys = <<>> THEN <<>> ELSE Head(keys) \o Join(Tail(keys))

getEnvironmentKeyString(env) ==
  Join(SortStrings([i \in 1..Len(env) |-> EnvKey(env[i])]))

\* variable[:strings.IndexByte(variable, '=')] of an entry without '=' is a
\* slice to -1: the call panics
EnvPanics(env) == \E i \in 1..Len(env) : IndexByte(env[i], ByteEquals, 1) < 0

\* a call of getEnvironmentKeyString when os.Environ() returns env
KeyStringCall(env) ==
  IF EnvPanics(env) THEN [panic |-> TRUE, str |-> <<>>]
  ELSE [panic |-> FALSE, str |-> getEnvironmentKeyString(env)]

\* createFingerprint: hash(entropy of MaxIdLength bytes + envKeyString)[1:]
createFingerprint(rf, envKeyString) ==
  Tail(hash(createEntropy(MaxIdLength, rf).str \o envKeyString))

\* ------------------------------------------------------------- IsCuid

\* regexp.MatchString("^[0-9a-z]+$", cuid), the pattern without its first class
MatchAnyStart(cuid) ==
  /\ Len(cuid) >= 1
  /\ \A i \in 1..Len(cuid) : cuid[i] \in DecimalDigits \cup LowerLetters

\* regexp.MatchString("^[a-z][0-9a-z]+$", cuid)
MatchCuidPattern(cuid) ==
  /\ Len(cuid) >= 2
  /\ cuid[1] \in LowerLetters
  /\ \A i \in 2..Len(cuid) : cuid[i] \in DecimalDigits \cup LowerLetters

IsCuid(cuid) ==
  LET length == Len(cuid)
      hasValidForm == MatchCuidPattern(cuid)
  IN hasValidForm /\ length >= MinIdLength /\ length <= MaxIdLength

\* ------------------------------------------------------------ options

\* The model's inputs.
MaxOptions == 3
MaxCalls == 2
MaxCandidateLen == 3
NumGoroutines == 2
MaxIncrements == 3
MaxEnvEntries == 2

\* lengths passed to WithLength: every one when it is the only option, those
\* at the edges of the valid range in the longer lists
Lengths == (-1..(MaxIdLength + 1)) \cup {2 * MaxIdLength}
EdgeLengths == {MinIdLength - 1, MinIdLength, MaxIdLength, MaxIdLength + 1}

\* functions passed to WithRandomFunc, by the values they return in turn
UserFuncs ==
  << <<100>>, <<0, FloatDen - 1>>, <<FloatDen>>, <<FloatDen + 1>>, <<-1>>,
     <<500, FloatDen>>, <<500, -1>> >>

\* seeds of the counters passed as WithSessionCounter(NewSessionCounter(V))
UserSeeds == {I64(0), I64(MaxSessionCount - 1)}

\* "fp" and the empty string, passed to WithFingerprint
UserFingerprints == {<<102, 112>>, <<>>}

\* what the default randomness source (crypto/rand) may return in turn:
\* values k / 2^53 with 0 <= k < 2^53, all in [0, 1)
DefaultCycles == {<<0>>, <<FloatDen - 1, 100, 500>>}

\* time.Now().UnixMilli()
Times == {I64(0), I64(1700000000)}

\* os.Environ(): none, or "P=/" and "HOME="
Environments == {<<>>, << <<80, 61, 47>>, <<72, 79, 77, 69, 61>> >>}

WithLength(length) == [kind |-> "WithLength", length |-> length]
WithRandomFunc(f) == [kind |-> "WithRandomFunc", randomFunc |-> f]
WithSessionCounter(seed) == [kind |-> "WithSessionCounter", seed |-> seed]
WithFingerprint(fp) == [kind |-> "WithFingerprint", fingerprint |-> fp]
NilOption == [kind |-> "nil"]

OptionsWith(lengths) ==
  {WithLength(n) : n \in lengths}
    \cup {WithRandomFunc(f) : f \in 1..Len(UserFuncs)}
    \cup {WithSessionCounter(v) : v \in UserSeeds}
    \cup {WithFingerprint(fp) : fp \in UserFingerprints}
    \cup {NilOption}

\* Init() and Init(option), for every option and every length
SingleOptionLists == {<<>>} \cup {<<opt>> : opt \in OptionsWith(Lengths)}

\* Init(options...) with up to MaxOptions options
OptionLists == UNION {[1..n -> OptionsWith(EdgeLengths)] : n \in 0..MaxOptions}

\* ---------------------------------------------------------------- state

VARIABLES
  environ,      \* os.Environ() of the process
  options,      \* the options the caller passed to Init
  config,       \* the Config that Init built and the closure captured
  counterValue, \* SessionCounter.value of config.SessionCounter
  g,            \* the cuidGenerator of the returned closure
  generateFn,   \* the function Init returned: "none" before Init returns
  initErr,      \* the error Init returned
  applied,      \* how many options Init called
  drawn,        \* per user randomness function, the draws made from it
  osDraws,      \* draws made from the default randomness source
  outs,         \* the strings the returned function has returned, in order
  panicked,     \* a call ended in a runtime panic
  entropyLeft,  \* reads crypto/rand still answers: Unlimited, or a number
  hashed        \* per string in outs, what the call that returned it worked on

genVars ==
  <<environ, options, config, counterValue, g, generateFn, initErr, applied,
    drawn, osDraws, outs, panicked, entropyLeft, hashed>>

VARIABLES
  cuid,         \* the string passed to IsCuid
  isCuid        \* <<>> before the call, then <<the boolean IsCuid returned>>

cuidVars == <<cuid, isCuid>>

Goroutines == 1..NumGoroutines

VARIABLES
  seed,         \* V of NewSessionCounter(V)
  incPc,        \* per goroutine, where it is in a call of Increment
  atEntry,      \* per goroutine, sc.value when its call of Increment began
  added,        \* per goroutine, what atomic.AddInt64 returned to it
  overlapped,   \* a call of Increment began while another was under way
  returns       \* the calls of Increment that returned, in order of return

counterVars == <<seed, incPc, atEntry, added, overlapped, returns>>

VARIABLES
  done,         \* initOnce.done
  mutex,        \* initOnce.m: 0 when free, else the goroutine that holds it
  genPc,        \* per goroutine, where it is in a call of Generate
  initRuns,     \* how many times Init has run for the default generator
  calls,        \* the calls of defaultGenerator that returned, in order
  panics        \* the calls of Generate that ended in a panic, in order

onceVars == <<done, mutex, genPc, initRuns, calls, panics>>

VARIABLES
  twinArgs,     \* what two generator instances are built from and called with
  twins,        \* per instance, its state and the strings it returned
  entropyArgs,  \* the arguments of a call of createEntropy
  entropyRet,   \* <<>> before the call, then <<what createEntropy returned>>
  envArgs,      \* two enumerations of an environment by os.Environ()
  envRet        \* <<>> before the calls, then getEnvironmentKeyString of each

pureVars == <<twinArgs, twins, entropyArgs, entropyRet, envArgs, envRet>>

vars == <<sha3, genVars, cuidVars, counterVars, onceVars, pureVars>>

DefaultRandomFunc == 0
NoGenerator == [length |-> 0, counter |-> "none", fingerprint |-> <<>>]
NoConfig ==
  [RandomFunc |-> DefaultRandomFunc, SessionCounter |-> "none", Length |-> 0,
   Fingerprint |-> <<>>]

\* no Init has run
GenIdle ==
  /\ options = <<>>
  /\ config = NoConfig
  /\ g = NoGenerator
  /\ generateFn = "none"
  /\ initErr = "nil"
  /\ applied = 0
  /\ drawn = [f \in 1..Len(UserFuncs) |-> 0]
  /\ osDraws = 0
  /\ outs = <<>>
  /\ panicked = FALSE
  /\ hashed = <<>>

\* rand.Reader answers every read
Unlimited == -1

GenStart == GenIdle /\ counterValue = I64(0) /\ entropyLeft = Unlimited

\* no call of the functions taken on their own has been made
TwinStart == twinArgs = <<>> /\ twins = <<>>
EntropyStart == entropyArgs = <<>> /\ entropyRet = <<>>
EnvStart == envArgs = <<>> /\ envRet = <<>>
PureStart == TwinStart /\ EntropyStart /\ EnvStart

CuidStart == cuid = <<>> /\ isCuid = <<>>

\* no goroutine is in Increment
IncrementIdle ==
  /\ incPc = [p \in Goroutines |-> "idle"]
  /\ atEntry = [p \in Goroutines |-> I64(0)]
  /\ added = [p \in Goroutines |-> I64(0)]
  /\ overlapped = FALSE
  /\ returns = <<>>

CounterStart == seed = I64(0) /\ IncrementIdle

\* var ( defaultGenerator func() string; initOnce sync.Once )
OnceStart ==
  /\ done = 0
  /\ mutex = 0
  /\ genPc = [p \in Goroutines |-> "idle"]
  /\ initRuns = 0
  /\ calls = <<>>
  /\ panics = <<>>

InitialState ==
  /\ sha3 \in DigestFns
  /\ environ \in Environments
  /\ GenStart
  /\ CuidStart
  /\ CounterStart
  /\ OnceStart
  /\ PureStart

\* --------------------------------------------------------------- Init

\* a range check that forgets the upper end
LengthAtLeastMin(length) == length >= MinIdLength

\* WithLength's range check
LengthInRange(length) == length >= MinIdLength /\ length <= MaxIdLength

\* WithRandomFunc's check of its one sample
SampleRejected(randomness) == randomness < 0 \/ randomness > FloatDen

\* One Option applied to the state of Init: st.config is *Config, st.err the
\* error the option returned.
ApplyOption(opt, st) ==
  CASE opt.kind = "nil" -> st
    [] opt.kind = "WithLength" ->
         IF ~LengthInRange(opt.length)
         THEN [st EXCEPT !.applied = @ + 1, !.err = "length"]
         ELSE [st EXCEPT !.applied = @ + 1, !.config.Length = opt.length]
    [] opt.kind = "WithRandomFunc" ->
         LET f == opt.randomFunc
             randomness == Sample(Stream(UserFuncs[f], st.drawn[f]))
             sampled == [st EXCEPT !.applied = @ + 1, !.drawn[f] = @ + 1]
         IN IF SampleRejected(randomness)
            THEN [sampled EXCEPT !.err = "random"]
            ELSE [sampled EXCEPT !.config.RandomFunc = f]
    [] opt.kind = "WithSessionCounter" ->
         [st EXCEPT !.applied = @ + 1, !.config.SessionCounter = "user",
                    !.counter = opt.seed]
    [] opt.kind = "WithFingerprint" ->
         [st EXCEPT !.applied = @ + 1, !.config.Fingerprint = opt.fingerprint]

\* a loop that goes on after an option failed
NeverReturnsAt(err) == FALSE

\* the loop's early return
ReturnsAt(err) == err # "nil"

\* for _, option := range options { ... }
RECURSIVE ApplyOptions(_, _, _)
ApplyOptions(opts, i, st) ==
  IF i > Len(opts) \/ ReturnsAt(st.err) THEN st
  ELSE ApplyOptions(opts, i + 1, ApplyOption(opts[i], st))

\* the configured generator returned whatever the options said
InitReturnFallback(st) ==
  [fn |-> "generator",
   g |-> [length |-> st.config.Length,
          counter |-> st.config.SessionCounter,
          fingerprint |-> st.config.Fingerprint]]

\* what Init returns: the stub beside an error, the closure over g otherwise
InitReturn(st) ==
  IF st.err # "nil" THEN [fn |-> "stub", g |-> NoGenerator]
  ELSE [fn |-> "generator",
        g |-> [length |-> st.config.Length,
               counter |-> st.config.SessionCounter,
               fingerprint |-> st.config.Fingerprint]]

\* a source that answers whatever is left to read
EntropyNeverFails(left, need) == FALSE

\* newRandomFunc: rand.Int returns an error, and the draw panics, once
\* rand.Reader has nothing left to answer one of the need draws of a call
EntropyFails(left, need) == left # Unlimited /\ left < need
EntropyAfter(left, used) == IF left = Unlimited THEN Unlimited ELSE left - used

\* a seed one above the floor
initialSessionCountAbove(r) == I64(FloorMul(r, MaxSessionCount) + 1)

\* initialSessionCount := int64(math.Floor(defaultRandomFunc() * float64(MaxSessionCount)))
initialSessionCount(r) == I64(FloorMul(r, MaxSessionCount))

\* Init up to its return: the defaults, then the options in turn
InitRun(cycle, fp, opts, drawn0) ==
  ApplyOptions(opts, 1,
               [config |-> [RandomFunc |-> DefaultRandomFunc,
                            SessionCounter |-> "default",
                            Length |-> DefaultIdLength,
                            Fingerprint |-> fp],
                counter |-> initialSessionCount(Sample(Stream(cycle, 0))),
                drawn |-> drawn0, err |-> "nil", applied |-> 0])

\* Init(options...): the default source's first draw seeds the session
\* counter, its next MaxIdLength draws are the fingerprint's entropy.  A
\* draw that panics ends Init: nothing is returned.
InitBody(lists) ==
  IF EntropyFails(entropyLeft, 1 + MaxIdLength)
  THEN /\ panicked' = TRUE
       /\ osDraws' = osDraws + entropyLeft
       /\ entropyLeft' = 0
       /\ UNCHANGED <<options, config, counterValue, drawn, initErr, applied,
                      generateFn, g>>
  ELSE \E cycle \in DefaultCycles :
       \E fp \in {createFingerprint(Stream(cycle, 1),
                                    getEnvironmentKeyString(environ))} :
       \E opts \in lists :
         \E st \in {InitRun(cycle, fp, opts, drawn)} :
              /\ options' = opts
              /\ config' = st.config
              /\ counterValue' = st.counter
              /\ drawn' = st.drawn
              /\ initErr' = st.err
              /\ applied' = st.applied
              /\ generateFn' = InitReturn(st).fn
              /\ g' = InitReturn(st).g
              /\ osDraws' = osDraws + 1 + MaxIdLength
              /\ entropyLeft' = EntropyAfter(entropyLeft, 1 + MaxIdLength)
              /\ panicked' = panicked

\* one call of Init by the program
Init(lists) ==
  /\ generateFn = "none"
  /\ ~panicked
  /\ InitBody(lists)
  /\ UNCHANGED <<sha3, environ, outs, hashed, cuidVars, pureVars, counterVars,
                 onceVars>>

\* ----------------------------------------------------------- generate

\* hash(hashInput)[:g.length], a slice that starts one byte early
hashSliceFromStart(h, length) == SubSeq(h, 1, length)

\* hash(hashInput)[1:g.length]
hashSlice(h, length) == SubSeq(h, 2, length)
hashSliceOK(h, length) == 1 <= length /\ length <= Len(h)

\* an Increment that adds twice
IncrementTwice(value) == AddInt64One(AddInt64One(value).value)

\* an Increment that returns the value and leaves it as it was
IncrementKeeps(value) == [value |-> value, ret |-> value]

\* SessionCounter.Increment
Increment(value) == AddInt64One(value)

\* The return statement of generate, given the hash of the input: the
\* string returned, or the panic of an out-of-range slice, with the stream
\* and the counter as the call left them.
generateReturn(firstLetter, h, length, rf, count, hashInput) ==
  IF ~hashSliceOK(h, length)
  THEN [panic |-> TRUE, str |-> <<>>, rf |-> rf, counter |-> count,
        hashInput |-> hashInput]
  ELSE [panic |-> FALSE, str |-> firstLetter \o hashSlice(h, length),
        rf |-> rf, counter |-> count, hashInput |-> hashInput]

generateHash(firstLetter, hashInput, length, rf, count) ==
  generateReturn(firstLetter, hash(hashInput), length, rf, count, hashInput)

\* a hash input with the counter ahead of the salt
generateSaltCounterFirst(firstLetter, timeStr, inc, salt, gen) ==
  generateHash(firstLetter,
               timeStr \o FormatInt(inc.ret, Base36) \o salt.str \o gen.fingerprint,
               gen.length, salt.rf, inc.value)

\* hashInput := timeStr + salt + countStr + g.fingerprint
generateSalt(firstLetter, timeStr, inc, salt, gen) ==
  generateHash(firstLetter,
               timeStr \o salt.str \o FormatInt(inc.ret, Base36) \o gen.fingerprint,
               gen.length, salt.rf, inc.value)

\* cuidGenerator.generate(timeMs, randomFunc) on the generator gen whose
\* counter holds value.  A first draw outside the alphabet panics before
\* the counter is touched.
generate(gen, value, timeMs, rf) ==
  IF ~AlphabetIndexOK(getRandomInt(rf, AlphabetSize))
  THEN [panic |-> TRUE, str |-> <<>>, rf |-> Advance(rf), counter |-> value,
        hashInput |-> <<>>]
  ELSE generateSalt(getRandomAlphabet(rf), FormatInt(timeMs, Base36),
                    Increment(value), createEntropy(gen.length, Advance(rf)),
                    gen)

\* a closure that draws from the default source whatever was configured
ClosureSourceDefault(f, userStream, defaultStream) == defaultStream

\* config.RandomFunc as the closure passes it to generate
ClosureSource(f, userStream, defaultStream) ==
  IF f = DefaultRandomFunc THEN defaultStream ELSE userStream

\* The closure Init returned with a nil error, run at one of the times:
\* g.generate(time.Now().UnixMilli(), config.RandomFunc)
\* With the default source, a draw that panics ends the call: the first
\* draw comes before the counter's increment, the salt's draws after it.
CallClosure(times) ==
  IF /\ config.RandomFunc = DefaultRandomFunc
     /\ EntropyFails(entropyLeft, 1 + g.length)
  THEN /\ panicked' = TRUE
       /\ counterValue' = IF entropyLeft >= 1 THEN Increment(counterValue).value
                          ELSE counterValue
       /\ osDraws' = osDraws + entropyLeft
       /\ entropyLeft' = 0
       /\ UNCHANGED <<outs, drawn, hashed>>
  ELSE \E timeMs \in times, cycle \in DefaultCycles :
       LET f == config.RandomFunc
           rf == ClosureSource(f, Stream(UserFuncs[f], drawn[f]),
                               Stream(cycle, 0))
       IN \E r \in {generate(g, counterValue, timeMs, rf)} :
          /\ counterValue' = r.counter
          /\ panicked' = r.panic
          /\ outs' = IF r.panic THEN outs ELSE Append(outs, r.str)
          /\ hashed' = IF r.panic THEN hashed
                       ELSE Append(hashed, [timeMs |-> timeMs, rf |-> rf,
                                            count |-> r.counter,
                                            hashInput |-> r.hashInput])
          /\ IF f = DefaultRandomFunc
             THEN /\ osDraws' = osDraws + r.rf.pos
                  /\ entropyLeft' = EntropyAfter(entropyLeft, r.rf.pos)
                  /\ drawn' = drawn
             ELSE /\ drawn' = [drawn EXCEPT ![f] = r.rf.pos]
                  /\ UNCHANGED <<osDraws, entropyLeft>>

\* A call of the closure Init returned with a nil error
CallGenerate ==
  /\ generateFn = "generator"
  /\ ~panicked
  /\ Len(outs) < MaxCalls
  /\ CallClosure(Times)
  /\ UNCHANGED <<sha3, environ, options, config, g, generateFn, initErr, applied,
                 cuidVars, pureVars, counterVars, onceVars>>

\* A call of the function Init returned beside an error:
\* func() string { return "" }
CallStub ==
  /\ generateFn = "stub"
  /\ Len(outs) < MaxCalls
  /\ outs' = Append(outs, <<>>)
  /\ UNCHANGED <<sha3, environ, options, config, counterValue, g, generateFn,
                 initErr, applied, drawn, osDraws, panicked, entropyLeft, hashed,
                 cuidVars, pureVars, counterVars, onceVars>>

\* Init with at most one option, and the calls of what it returned
Next ==
  \/ Init(SingleOptionLists)
  \/ CallGenerate
  \/ CallStub

Spec == InitialState /\ [][Next]_vars

\* Init with every list of options
NextOptions == Init(OptionLists)

SpecOptions == InitialState /\ [][NextOptions]_vars

\* ------------------------------------------------------- IsCuid calls

\* The strings passed to IsCuid: every string of up to MaxCandidateLen bytes
\* over bytes at and around the edges of the classes a-z and 0-9 ("a", "z",
\* "0", "9", "`", "{", "/", ":", "A", "-", newline, a byte above 127), and
\* each of the shorter ones padded with one byte to a length around
\* MaxIdLength.
CandidateBytes == {97, 122, 48, 57, 96, 123, 47, 58, 65, 45, 10, 233}
PaddedLens == {MaxIdLength - 1, MaxIdLength, MaxIdLength + 1}
ShortCandidates(n) == UNION {[1..k -> CandidateBytes] : k \in 0..n}
Candidates ==
  ShortCandidates(MaxCandidateLen)
    \cup {prefix \o [i \in 1..(n - Len(prefix)) |-> b] :
            prefix \in ShortCandidates(MaxCandidateLen - 1),
            b \in CandidateBytes, n \in PaddedLens}

\* the caller holds any of the candidate strings
InitialIsCuid ==
  /\ sha3 = 1
  /\ environ = <<>>
  /\ GenStart
  /\ cuid \in Candidates
  /\ isCuid = <<>>
  /\ CounterStart
  /\ OnceStart
  /\ PureStart

\* IsCuid(cuid)
CallIsCuid ==
  /\ isCuid = <<>>
  /\ isCuid' = <<IsCuid(cuid)>>
  /\ UNCHANGED <<sha3, genVars, cuid, counterVars, onceVars, pureVars>>

NextIsCuid == CallIsCuid

SpecIsCuid == InitialIsCuid /\ [][NextIsCuid]_vars

\* ---------------------------------------------------- Increment calls

\* seeds passed to NewSessionCounter: zero, a small one, one whose increment
\* carries into the next limb, the largest seed Init draws, a negative one
\* that counts up through zero, and one that reaches the end of int64
CounterSeeds ==
  {I64(0), I64(10), I64(Limb - 1), I64(MaxSessionCount - 1), I64(-2),
   [MaxInt64 EXCEPT ![4] = Limb - 2]}

\* sc := NewSessionCounter(seed), shared by the goroutines
InitialCounter ==
  /\ sha3 = 1
  /\ environ = <<>>
  /\ GenIdle
  /\ entropyLeft = Unlimited
  /\ seed \in CounterSeeds
  /\ counterValue = seed
  /\ IncrementIdle
  /\ CuidStart
  /\ OnceStart
  /\ PureStart

\* calls of Increment begun so far
IncrementCalls ==
  Len(returns) + Cardinality({p \in Goroutines : incPc[p] # "idle"})

\* goroutine p calls sc.Increment()
IncrementEnter(p) ==
  /\ incPc[p] = "idle"
  /\ IncrementCalls < MaxIncrements
  /\ incPc' = [incPc EXCEPT ![p] = "entered"]
  /\ atEntry' = [atEntry EXCEPT ![p] = counterValue]
  /\ overlapped' = (overlapped \/ \E q \in Goroutines : incPc[q] # "idle")
  /\ UNCHANGED <<sha3, genVars, cuidVars, pureVars, seed, added, returns, onceVars>>

\* atomic.AddInt64(&sc.value, 1)
IncrementAdd(p) ==
  /\ incPc[p] = "entered"
  /\ \E r \in {AddInt64One(AddInt64Reads(counterValue, atEntry[p]))} :
       /\ counterValue' = r.value
       /\ added' = [added EXCEPT ![p] = r.ret]
  /\ incPc' = [incPc EXCEPT ![p] = "added"]
  /\ UNCHANGED <<sha3, environ, options, config, g, generateFn, initErr, applied,
                 drawn, osDraws, outs, panicked, entropyLeft, hashed, cuidVars,
                 pureVars, seed, atEntry, overlapped, returns, onceVars>>

\* Increment returns to its caller; generate formats what it got:
\* countStr := strconv.FormatInt(g.counter.Increment(), Base36)
IncrementReturn(p) ==
  /\ incPc[p] = "added"
  /\ returns' = Append(returns, [by |-> p, ret |-> added[p],
                                 countStr |-> FormatInt(added[p], Base36)])
  /\ incPc' = [incPc EXCEPT ![p] = "idle"]
  /\ atEntry' = [atEntry EXCEPT ![p] = I64(0)]
  /\ added' = [added EXCEPT ![p] = I64(0)]
  /\ UNCHANGED <<sha3, genVars, cuidVars, pureVars, seed, overlapped, onceVars>>

NextCounter ==
  \E p \in Goroutines :
    \/ IncrementEnter(p)
    \/ IncrementAdd(p)
    \/ IncrementReturn(p)

SpecCounter == InitialCounter /\ [][NextCounter]_vars

\* ----------------------------------------------------- Generate calls

\* a slow path that runs f whenever it gets the lock
OnceRunsAlways(d) == TRUE

\* sync.Once: Do takes the slow path when done is 0, and the slow path,
\* holding the lock, runs f when done is still 0
OnceFastPathMisses(d) == d = 0
OnceRuns(d) == d = 0

\* a Once that is spent only when f returns
OnceDoneOnReturn(panicking) == IF panicking THEN 0 ELSE 1

\* defer o.done.Store(1): the store is deferred before f is called, so it
\* runs whether f returns or panics
OnceDoneAfter(panicking) == 1

\* the process starts with nothing initialised
InitialGenerate ==
  /\ sha3 \in DigestFns
  /\ environ \in Environments
  /\ GenStart
  /\ CuidStart
  /\ CounterStart
  /\ OnceStart
  /\ PureStart

\* calls of Generate begun so far
GenerateCalls ==
  Len(calls) + Len(panics)
    + Cardinality({p \in Goroutines : genPc[p] # "idle"})

\* goroutine p calls Generate()
GenerateEnter(p) ==
  /\ genPc[p] = "idle"
  /\ ~panicked
  /\ GenerateCalls < MaxCalls
  /\ genPc' = [genPc EXCEPT ![p] = "Do"]
  /\ UNCHANGED <<sha3, genVars, cuidVars, pureVars, counterVars, done, mutex, initRuns,
                 calls, panics>>

\* initOnce.Do: if o.done.Load() == 0 { o.doSlow(f) }
OnceDo(p) ==
  /\ genPc[p] = "Do"
  /\ genPc' = [genPc EXCEPT
                 ![p] = IF OnceFastPathMisses(done) THEN "Lock" ELSE "call"]
  /\ UNCHANGED <<sha3, genVars, cuidVars, pureVars, counterVars, done, mutex, initRuns,
                 calls, panics>>

\* doSlow: o.m.Lock()
OnceLock(p) ==
  /\ genPc[p] = "Lock"
  /\ mutex = 0
  /\ mutex' = p
  /\ genPc' = [genPc EXCEPT ![p] = "doSlow"]
  /\ UNCHANGED <<sha3, genVars, cuidVars, pureVars, counterVars, done, initRuns, calls,
                 panics>>

\* doSlow: if o.done.Load() == 0 { defer o.done.Store(1); f() }
OnceDoSlow(p) ==
  /\ genPc[p] = "doSlow"
  /\ genPc' = [genPc EXCEPT ![p] = IF OnceRuns(done) THEN "f" ELSE "Unlock"]
  /\ UNCHANGED <<sha3, genVars, cuidVars, pureVars, counterVars, done, mutex, initRuns,
                 calls, panics>>

\* f: defaultGenerator, _ = Init()
\* When Init panics, nothing is assigned and the deferred calls of doSlow
\* run while the panic goes up the stack.
OnceF(p) ==
  /\ genPc[p] = "f"
  /\ InitBody({<<>>})
  /\ initRuns' = initRuns + 1
  /\ genPc' = [genPc EXCEPT
                 ![p] = IF EntropyFails(entropyLeft, 1 + MaxIdLength)
                        THEN "StorePanicking" ELSE "Store"]
  /\ UNCHANGED <<sha3, environ, outs, hashed, cuidVars, pureVars, counterVars,
                 done, mutex, calls, panics>>

\* the deferred o.done.Store(1)
OnceStore(p) ==
  /\ genPc[p] \in {"Store", "StorePanicking"}
  /\ done' = OnceDoneAfter(genPc[p] = "StorePanicking")
  /\ genPc' = [genPc EXCEPT ![p] = IF genPc[p] = "StorePanicking"
                                   THEN "UnlockPanicking" ELSE "Unlock"]
  /\ UNCHANGED <<sha3, genVars, cuidVars, pureVars, counterVars, mutex, initRuns, calls,
                 panics>>

\* the deferred o.m.Unlock(); a panic of f then leaves Do and Generate
OnceUnlock(p) ==
  /\ genPc[p] \in {"Unlock", "UnlockPanicking"}
  /\ mutex' = 0
  /\ genPc' = [genPc EXCEPT ![p] = IF genPc[p] = "UnlockPanicking"
                                   THEN "idle" ELSE "call"]
  /\ panics' = IF genPc[p] = "UnlockPanicking"
               THEN Append(panics, [by |-> p, in |-> "Init"])
               ELSE panics
  /\ UNCHANGED <<sha3, genVars, cuidVars, pureVars, counterVars, done, initRuns, calls>>

\* return defaultGenerator(): calling the nil function value panics, and so
\* does the generator when a draw of the default source fails
CallDefault(p) ==
  /\ genPc[p] = "call"
  /\ genPc' = [genPc EXCEPT ![p] = "idle"]
  /\ IF generateFn = "none"
     THEN /\ panicked' = TRUE
          /\ panics' = Append(panics, [by |-> p, in |-> "nil"])
          /\ UNCHANGED <<counterValue, outs, osDraws, drawn, entropyLeft,
                         hashed, calls>>
     ELSE /\ CallClosure({I64(1700000000)})
          /\ IF outs' = outs
             THEN /\ panics' = Append(panics, [by |-> p, in |-> "generate"])
                  /\ calls' = calls
             ELSE /\ calls' = Append(calls, [by |-> p, init |-> initRuns,
                                             count |-> counterValue',
                                             fingerprint |-> g.fingerprint])
                  /\ panics' = panics
  /\ UNCHANGED <<sha3, environ, options, config, g, generateFn, initErr, applied,
                 cuidVars, pureVars, counterVars, done, mutex, initRuns>>

NextGenerate ==
  \E p \in Goroutines :
    \/ GenerateEnter(p)
    \/ OnceDo(p)
    \/ OnceLock(p)
    \/ OnceDoSlow(p)
    \/ OnceF(p)
    \/ OnceStore(p)
    \/ OnceUnlock(p)
    \/ CallDefault(p)

SpecGenerate == InitialGenerate /\ [][NextGenerate]_vars

\* ------------------------------------- Generate calls that can panic

\* what rand.Reader still answers when the process starts: nothing, less
\* than Init draws, what Init draws and no more, or everything
StartBudgets == {0, 1, MaxIdLength, 1 + MaxIdLength, Unlimited}

InitialRecovering ==
  /\ sha3 \in DigestFns
  /\ environ \in Environments
  /\ GenIdle
  /\ counterValue = I64(0)
  /\ entropyLeft \in StartBudgets
  /\ CuidStart
  /\ CounterStart
  /\ OnceStart
  /\ PureStart

\* goroutine p calls Generate() below a deferred recover(): a panic of an
\* earlier call has not ended the process
GenerateEnterRecovering(p) ==
  /\ genPc[p] = "idle"
  /\ GenerateCalls < MaxCalls
  /\ genPc' = [genPc EXCEPT ![p] = "Do"]
  /\ UNCHANGED <<sha3, genVars, cuidVars, pureVars, counterVars, done, mutex, initRuns,
                 calls, panics>>

\* rand.Reader, having failed, answers again
EntropyReturns ==
  /\ panicked
  /\ entropyLeft = 0
  /\ entropyLeft' = Unlimited
  /\ UNCHANGED <<sha3, environ, options, config, counterValue, g, generateFn,
                 initErr, applied, drawn, osDraws, outs, panicked, hashed,
                 cuidVars, pureVars, counterVars, onceVars>>

NextRecovering ==
  \/ EntropyReturns
  \/ \E p \in Goroutines :
       \/ GenerateEnterRecovering(p)
       \/ OnceDo(p)
       \/ OnceLock(p)
       \/ OnceDoSlow(p)
       \/ OnceF(p)
       \/ OnceStore(p)
       \/ OnceUnlock(p)
       \/ CallDefault(p)

SpecRecovering == InitialRecovering /\ [][NextRecovering]_vars

\* ------------------------------------------------ createEntropy calls

\* lengths passed to createEntropy
EntropyLengths ==
  {0, 1, 2, 3, DefaultIdLength, MaxIdLength, MaxIdLength + 8}

\* sources with values in [0, 1): the least and the greatest, the values on
\* both sides of the steps from digit 0 to 1 and from 9 to a, and a mix
EntropyCycles ==
  {<<0>>, <<FloatDen - 1>>, <<27>>, <<28>>,
   <<0, FloatDen - 1, 500, 27, 28, 277, 278>>}

\* the draws made from the source before the call
EntropyPositions == 0..2

InitialCreateEntropy ==
  /\ sha3 = 1
  /\ environ = <<>>
  /\ GenStart
  /\ CuidStart
  /\ CounterStart
  /\ OnceStart
  /\ TwinStart
  /\ EnvStart
  /\ entropyArgs \in [length : EntropyLengths,
                      rf : {Stream(c, pos) : c \in EntropyCycles,
                                             pos \in EntropyPositions}]
  /\ entropyRet = <<>>

\* createEntropy(length, randomFunc)
CallCreateEntropy ==
  /\ entropyRet = <<>>
  /\ entropyRet' = <<createEntropy(entropyArgs.length, entropyArgs.rf)>>
  /\ UNCHANGED <<sha3, genVars, cuidVars, counterVars, onceVars, twinArgs,
                 twins, entropyArgs, envArgs, envRet>>

NextCreateEntropy == CallCreateEntropy

SpecCreateEntropy == InitialCreateEntropy /\ [][NextCreateEntropy]_vars

\* ------------------------------------- getEnvironmentKeyString calls

\* names "A", "AB", "B" and the empty name; values "/" and "=B"
EnvNames == {<<65>>, <<65, 66>>, <<66>>, <<>>}
EnvValues == {<<47>>, <<ByteEquals, 66>>}

\* the enumerations of n variables with different names
NameLists(n) ==
  {ns \in [1..n -> EnvNames] : \A i, j \in 1..n : i # j => ns[i] # ns[j]}
EnvEntriesOf(ns, vs) == [i \in 1..Len(ns) |-> ns[i] \o <<ByteEquals>> \o vs[i]]

\* two enumerations of the same names, in any two orders with any values
SameNamePairs(n) ==
  {<<EnvEntriesOf(ns, vs), EnvEntriesOf(ms, ws)>> :
     <<ns, ms>> \in {p \in NameLists(n) \X NameLists(n) :
                      {p[1][i] : i \in 1..n} = {p[2][i] : i \in 1..n}},
     <<vs, ws>> \in [1..n -> EnvValues] \X [1..n -> EnvValues]}

\* an enumeration that holds the entry "A", which has no '='
MalformedPairs ==
  {<<env, env>> : env \in {<< <<65>> >>, << <<66, 61, 47>>, <<65>> >>}}

InitialEnvKeys ==
  /\ sha3 = 1
  /\ environ = <<>>
  /\ GenStart
  /\ CuidStart
  /\ CounterStart
  /\ OnceStart
  /\ TwinStart
  /\ EntropyStart
  /\ envArgs \in UNION {SameNamePairs(n) : n \in 0..MaxEnvEntries}
                   \cup MalformedPairs
  /\ envRet = <<>>

\* getEnvironmentKeyString() under each of the two enumerations
CallEnvKeyString ==
  /\ envRet = <<>>
  /\ envRet' = <<KeyStringCall(envArgs[1]), KeyStringCall(envArgs[2])>>
  /\ UNCHANGED <<sha3, genVars, cuidVars, counterVars, onceVars, twinArgs,
                 twins, entropyArgs, entropyRet, envArgs>>

NextEnvKeys == CallEnvKeyString

SpecEnvKeys == InitialEnvKeys /\ [][NextEnvKeys]_vars

\* ------------------------------------------ the entropy source fails

\* How many reads rand.Reader answers before it fails: none; one; all of
\* Init's but the last; all of Init's; Init's and the first draw of a call;
\* Init's and one whole call at the default length; that and one more.
EntropyBudgets ==
  {0, 1, MaxIdLength, 1 + MaxIdLength, 2 + MaxIdLength,
   2 + MaxIdLength + DefaultIdLength, 3 + MaxIdLength + DefaultIdLength}

\* Init(), Init(WithLength(2)) and Init(WithRandomFunc(f)), f in [0, 1)
EntropyOptionLists ==
  {<<>>, <<WithLength(MinIdLength)>>, <<WithRandomFunc(1)>>}

InitialEntropySource ==
  /\ sha3 = 1
  /\ environ = <<>>
  /\ GenIdle
  /\ counterValue = I64(0)
  /\ entropyLeft \in EntropyBudgets
  /\ CuidStart
  /\ CounterStart
  /\ OnceStart
  /\ PureStart

NextEntropySource ==
  \/ Init(EntropyOptionLists)
  \/ CallGenerate

SpecEntropySource == InitialEntropySource /\ [][NextEntropySource]_vars

\* ------------------------------------- two instances, the same inputs

\* "test-fingerprint"
TestFingerprint ==
  <<116, 101, 115, 116, 45, 102, 105, 110, 103, 101, 114, 112, 114, 105, 110,
    116>>

TwinLengths == {MinIdLength, MinIdLength + 1, 10, DefaultIdLength, MaxIdLength}
TwinFingerprints == {TestFingerprint, <<>>}
\* the user functions that return one value for ever, a value in [0, 1)
TwinFuncs ==
  {f \in 1..Len(UserFuncs) :
     Len(UserFuncs[f]) = 1 /\ UserFuncs[f][1] >= 0 /\ UserFuncs[f][1] < FloatDen}
Instances == 1..2

\* Init(WithLength(L), WithFingerprint(fp),
\*      WithSessionCounter(NewSessionCounter(V)), WithRandomFunc(f))
TwinOptions(args) ==
  <<WithLength(args.length), WithFingerprint(args.fingerprint),
    WithSessionCounter(args.seed), WithRandomFunc(args.f)>>

NotBuilt ==
  [fn |-> "none", g |-> NoGenerator, f |-> DefaultRandomFunc,
   counter |-> I64(0), pos |-> 0, outs |-> <<>>, counts |-> <<>>,
   inputs |-> <<>>]

\* the inputs the two instances share: the options and the time of each call
InitialTwins ==
  /\ sha3 \in DigestFns
  /\ environ = <<>>
  /\ GenStart
  /\ CuidStart
  /\ CounterStart
  /\ OnceStart
  /\ EntropyStart
  /\ EnvStart
  /\ twinArgs \in [length : TwinLengths, fingerprint : TwinFingerprints,
                   seed : CounterSeeds, f : TwinFuncs,
                   times : [1..MaxCalls -> Times]]
  /\ twins = [i \in Instances |-> NotBuilt]

\* instance i is built: each Init makes its own draws from the default source
TwinInit(i) ==
  /\ twins[i].fn = "none"
  /\ \E cycle \in DefaultCycles :
     \E fp \in {createFingerprint(Stream(cycle, 1),
                                  getEnvironmentKeyString(environ))} :
     \E st \in {InitRun(cycle, fp, TwinOptions(twinArgs),
                        [f \in 1..Len(UserFuncs) |-> 0])} :
       twins' = [twins EXCEPT ![i] =
                   [fn |-> InitReturn(st).fn, g |-> InitReturn(st).g,
                    f |-> st.config.RandomFunc, counter |-> st.counter,
                    pos |-> IF st.config.RandomFunc = DefaultRandomFunc THEN 0
                            ELSE st.drawn[st.config.RandomFunc],
                    outs |-> <<>>, counts |-> <<>>, inputs |-> <<>>]]
  /\ UNCHANGED <<sha3, genVars, cuidVars, counterVars, onceVars, twinArgs,
                 entropyArgs, entropyRet, envArgs, envRet>>

\* the next call of instance i, at the time set for it:
\* g.generate(timeMs, config.RandomFunc)
TwinCall(i) ==
  /\ twins[i].fn = "generator"
  /\ Len(twins[i].outs) < MaxCalls
  /\ \E cycle \in DefaultCycles :
     \E r \in {generate(twins[i].g, twins[i].counter,
                        twinArgs.times[Len(twins[i].outs) + 1],
                        ClosureSource(twins[i].f,
                                      Stream(UserFuncs[twins[i].f], twins[i].pos),
                                      Stream(cycle, 0)))} :
       /\ ~r.panic
       /\ twins' = [twins EXCEPT ![i] =
                      [@ EXCEPT !.counter = r.counter, !.pos = r.rf.pos,
                                !.outs = Append(@, r.str),
                                !.counts = Append(@, r.counter),
                                !.inputs = Append(@, r.hashInput)]]
  /\ UNCHANGED <<sha3, genVars, cuidVars, counterVars, onceVars, twinArgs,
                 entropyArgs, entropyRet, envArgs, envRet>>

NextTwins == \E i \in Instances : TwinInit(i) \/ TwinCall(i)

SpecTwins == InitialTwins /\ [][NextTwins]_vars

\* ------------------------------------------------------------- claims

Returned == generateFn # "none"

\* the indices of the options of one kind
OfKind(opts, kind) == {i \in 1..Len(opts) : opts[i].kind = kind}
Last(S) == CHOOSE i \in S : \A j \in S : j <= i

\* the length the caller asked for: the last WithLength, else the default
RequestedLength(opts) ==
  IF OfKind(opts, "WithLength") = {} THEN DefaultIdLength
  ELSE opts[Last(OfKind(opts, "WithLength"))].length

\* C1: every string a generator returns has exactly the configured length:
\* L after Init(WithLength(L)) for L in 2..32, DefaultIdLength = 24 when no
\* length option was given.
C1_ExactLength ==
  generateFn = "generator" =>
    \A i \in 1..Len(outs) : Len(outs[i]) = RequestedLength(options)

\* C1 witness: a generator of the maximal length has returned strings of 32
\* bytes under the digest function with the shortest text.
C1_Witness ==
  /\ options = <<WithLength(MaxIdLength)>>
  /\ DigestTextLens[sha3] = MinDigestText
  /\ Len(outs) = MaxCalls
  /\ Len(outs[1]) = MaxIdLength

\* C2: every string a generator returns starts with a letter a-z, holds only
\* a-z and 0-9, and is accepted by IsCuid.
C2_ValidShape ==
  generateFn = "generator" =>
    \A i \in 1..Len(outs) :
      /\ outs[i] # <<>>
      /\ outs[i][1] \in LowerLetters
      /\ \A j \in 1..Len(outs[i]) : outs[i][j] \in LowerLetters \cup DecimalDigits
      /\ IsCuid(outs[i])

\* C2 witness: a returned string of the minimal length whose hash byte is a
\* digit, and one of the maximal length.
C2_Witness ==
  /\ generateFn = "generator"
  /\ Len(outs) = MaxCalls
  /\ \E i \in 1..Len(outs) :
       Len(outs[i]) = MaxIdLength /\ \E j \in 2..MaxIdLength : outs[i][j] \in DecimalDigits

\* ^[a-z][a-z0-9]*$, as the claim words the pattern
MatchesLetterThenAlnum(s) ==
  /\ Len(s) >= 1
  /\ s[1] \in 97..122
  /\ \A i \in 2..Len(s) : s[i] \in (97..122) \cup (48..57)

\* C3: IsCuid(s) is true exactly when s matches ^[a-z][a-z0-9]*$ in full and
\* has 2 to 32 bytes; so it is false for the empty string, a leading digit,
\* an uppercase letter or other byte outside a-z0-9, and more than 32 bytes.
\* The calls leave the generator state as it was at the start.
C3_IsCuidIff ==
  /\ GenStart
  /\ isCuid # <<>> =>
       /\ isCuid[1] <=>
            (MatchesLetterThenAlnum(cuid) /\ Len(cuid) >= 2 /\ Len(cuid) <= 32)
       /\ cuid = <<>> => ~isCuid[1]
       /\ (cuid # <<>> /\ cuid[1] \in 48..57) => ~isCuid[1]
       /\ (\E i \in 1..Len(cuid) : ~(cuid[i] \in (97..122) \cup (48..57)))
            => ~isCuid[1]
       /\ Len(cuid) > 32 => ~isCuid[1]

\* C3 witness: IsCuid accepted a string of 32 bytes that holds a digit.
C3_Witness ==
  /\ isCuid = <<TRUE>>
  /\ Len(cuid) = MaxIdLength
  /\ \E i \in 2..Len(cuid) : cuid[i] \in 48..57

\* C4: Init(WithLength(n)) returns an error exactly when n < 2 or n > 32.
C4_LengthValidated ==
  \A n \in Lengths :
    (Returned /\ options = <<WithLength(n)>>) =>
      (initErr # "nil" <=> (n < 2 \/ n > 32))

\* C4 witness: Init(WithLength(64)) has returned its error.
C4_Witness ==
  Returned /\ options = <<WithLength(2 * MaxIdLength)>> /\ initErr = "length"

\* C5: once Init has returned an error, the function it returned is the stub:
\* no call of it returns a string IsCuid accepts, advances the session
\* counter or draws from a randomness source.
C5_NoGeneratorOnError ==
  [][initErr # "nil" =>
       /\ generateFn' = "stub"
       /\ \A i \in 1..Len(outs') : ~IsCuid(outs'[i])
       /\ counterValue' = counterValue
       /\ drawn' = drawn
       /\ osDraws' = osDraws
       /\ ~panicked']_vars

\* C5 witness: the function returned beside an error has been called.
C5_Witness == initErr # "nil" /\ generateFn = "stub" /\ Len(outs) = MaxCalls

\* C6 (as claimed): Init(WithRandomFunc(f)) draws one sample from f, returns
\* an error exactly when the sample is below 0 or at least 1, and on error
\* leaves the default randomness source configured.
C6_SampleInUnitInterval ==
  \A f \in 1..Len(UserFuncs) :
    (Returned /\ options = <<WithRandomFunc(f)>> /\ outs = <<>> /\ ~panicked) =>
      LET sample == UserFuncs[f][1]
      IN /\ drawn[f] = 1
         /\ initErr # "nil" <=> (sample < 0 \/ sample >= FloatDen)
         /\ initErr # "nil" => config.RandomFunc = DefaultRandomFunc

\* C7: whether the i-th option returns an error when its turn comes: a
\* length out of range, or a sample the check of WithRandomFunc rejects (the
\* sample is the next value of the function after the draws of the earlier
\* options).
OptionFails(opts, i) ==
  \/ opts[i].kind = "WithLength" /\ ~(opts[i].length \in MinIdLength..MaxIdLength)
  \/ /\ opts[i].kind = "WithRandomFunc"
     /\ LET f == opts[i].randomFunc
            before == Cardinality({j \in 1..(i - 1) : opts[j] = opts[i]})
            sample == UserFuncs[f][(before % Len(UserFuncs[f])) + 1]
        IN sample < 0 \/ sample > FloatDen

FirstError(opts) ==
  IF \E i \in 1..Len(opts) : OptionFails(opts, i)
  THEN CHOOSE i \in 1..Len(opts) :
         OptionFails(opts, i) /\ \A j \in 1..(i - 1) : ~OptionFails(opts, j)
  ELSE 0

\* C7: Init applies the options left to right and returns at the first one
\* that fails: the options behind it are not applied (their randomness
\* functions are not sampled); without a failure the last option of each
\* kind decides the configuration.
C7_OptionsInOrder ==
  (Returned /\ outs = <<>> /\ ~panicked) =>
    LET k == FirstError(options)
        upto == IF k = 0 THEN Len(options) ELSE k
    IN /\ initErr # "nil" <=> k # 0
       /\ applied = Cardinality({i \in 1..upto : options[i].kind # "nil"})
       /\ \A f \in 1..Len(UserFuncs) :
            drawn[f] = Cardinality({i \in 1..upto : options[i] = WithRandomFunc(f)})
       /\ k = 0 =>
            /\ config.Length = RequestedLength(options)
            /\ OfKind(options, "WithRandomFunc") # {} =>
                 config.RandomFunc =
                   options[Last(OfKind(options, "WithRandomFunc"))].randomFunc
            /\ OfKind(options, "WithRandomFunc") = {} =>
                 config.RandomFunc = DefaultRandomFunc
            /\ OfKind(options, "WithSessionCounter") # {} =>
                 /\ config.SessionCounter = "user"
                 /\ counterValue =
                      options[Last(OfKind(options, "WithSessionCounter"))].seed
            /\ OfKind(options, "WithFingerprint") # {} =>
                 config.Fingerprint =
                   options[Last(OfKind(options, "WithFingerprint"))].fingerprint

\* C7 witness: a failing WithLength came first, and the randomness function
\* of the option behind it was never sampled.
C7_Witness ==
  /\ Len(options) = 2
  /\ options[1] = WithLength(MaxIdLength + 1)
  /\ options[2].kind = "WithRandomFunc"
  /\ initErr = "length"
  /\ drawn[options[2].randomFunc] = 0

\* v + k in 64-bit two's complement, for 0 <= k < Limb
Plus64(v, k) ==
  LET s4 == v[4] + k
      s3 == v[3] + (s4 \div Limb)
      s2 == v[2] + (s3 \div Limb)
      s1 == v[1] + (s2 \div Limb)
  IN <<s1 % Limb, s2 % Limb, s3 % Limb, s4 % Limb>>

\* the integer an int64 of magnitude below 2^31 stands for
IsSmall64(v) ==
  \/ v[1] = 0 /\ v[2] = 0 /\ v[3] < SignLimb
  \/ v[1] = Limb - 1 /\ v[2] = Limb - 1 /\ v[3] >= SignLimb
IntOf(v) ==
  IF v[1] = 0 THEN (v[3] * Limb) + v[4]
  ELSE ((v[3] - Limb) * Limb) + v[4]

\* C8: while the calls of Increment on NewSessionCounter(V) follow one
\* another, the k-th call returns V + k (the value after adding 1), V + k
\* taken in int64 arithmetic and, for |V| below 2^31, as an integer.
C8_IncrementReturnsNew ==
  ~overlapped =>
    /\ \A k \in 1..Len(returns) :
         /\ returns[k].ret = Plus64(seed, k)
         /\ (IsSmall64(seed) /\ IsSmall64(returns[k].ret))
              => IntOf(returns[k].ret) = IntOf(seed) + k
    /\ \A p \in Goroutines :
         incPc[p] = "added" => added[p] = Plus64(seed, Len(returns) + 1)

\* C8 witness: two calls in a row on the largest seed Init draws, the
\* second having returned V + 2.
C8_Witness ==
  /\ seed = I64(MaxSessionCount - 1)
  /\ ~overlapped
  /\ Len(returns) = 2
  /\ IntOf(returns[2].ret) = MaxSessionCount + 1

\* the adds performed, and the values they handed to their callers
Adds == Len(returns) + Cardinality({p \in Goroutines : incPc[p] = "added"})
Handed ==
  {returns[k].ret : k \in 1..Len(returns)}
    \cup {added[p] : p \in {q \in Goroutines : incPc[q] = "added"}}

\* C9: in every interleaving of the goroutines' calls of Increment on one
\* counter seeded at V, the n values handed out are exactly V+1..V+n, each
\* once, the stored value is V+n, and no two calls of generate get the same
\* counter text.
C9_NoLostNoDuplicate ==
  /\ counterValue = Plus64(seed, Adds)
  /\ Handed = {Plus64(seed, k) : k \in 1..Adds}
  /\ Cardinality(Handed) = Adds
  /\ \A j, k \in 1..Len(returns) :
       j # k => /\ returns[j].ret # returns[k].ret
                /\ returns[j].countStr # returns[k].countStr

\* C9 witness: all the calls returned, some of them having overlapped, two
\* goroutines among the callers, and the call that returned first did not
\* get the first value.
C9_Witness ==
  /\ overlapped
  /\ Len(returns) = MaxIncrements
  /\ returns[1].ret # Plus64(seed, 1)
  /\ \E j, k \in 1..Len(returns) : returns[j].by # returns[k].by
  /\ \A p \in Goroutines : incPc[p] = "idle"

\* C10: however the goroutines' calls of Generate interleave, Init runs at
\* most once and has run before any goroutine calls defaultGenerator, no
\* call panics, and every call uses the one generator: the same fingerprint,
\* and consecutive values of the same counter.
C10_InitOnce ==
  /\ initRuns <= 1
  /\ ~panicked
  /\ \A p \in Goroutines :
       genPc[p] = "call" =>
         initRuns = 1 /\ done = 1 /\ generateFn = "generator"
  /\ Len(calls) = Len(outs)
  /\ \A k \in 1..Len(calls) :
       /\ calls[k].init = 1
       /\ calls[k].fingerprint = calls[1].fingerprint
       /\ calls[k].count = Plus64(calls[1].count, k - 1)
       /\ Len(outs[k]) = DefaultIdLength

\* C10 witness: goroutine 1 has run Init and returned from its call while
\* goroutine 2, which saw done = 0 on the fast path, holds the lock and is
\* about to look at done again.
C10_Witness ==
  /\ Len(calls) = 1
  /\ calls[1].by = 1
  /\ genPc[2] = "doSlow"
  /\ done = 1
  /\ initRuns = 1

\* the calls both instances have made
BothCalled ==
  1..(IF Len(twins[1].outs) < Len(twins[2].outs) THEN Len(twins[1].outs)
      ELSE Len(twins[2].outs))

\* the two instances agree call by call, and each counts up by one
SameSequences ==
  /\ \A k \in BothCalled :
       /\ twins[1].outs[k] = twins[2].outs[k]
       /\ twins[1].counts[k] = twins[2].counts[k]
  /\ \A i \in Instances :
       \A k \in 1..Len(twins[i].outs) :
         /\ twins[i].counts[k] = Plus64(twinArgs.seed, k)
         /\ Len(twins[i].outs[k]) = twinArgs.length

\* C11 (as claimed): the two instances return the same strings, the second
\* call uses a counter value one above the first, and the first and second
\* strings of an instance differ.
C11_DifferentStrings ==
  /\ SameSequences
  /\ \A i \in Instances :
       Len(twins[i].outs) >= 2 => twins[i].outs[1] # twins[i].outs[2]

\* C11 (amended): the two instances return the same strings, the second call
\* uses a counter value one above the first and so hashes another input, and
\* the two strings of an instance differ unless the two digests agree on the
\* length - 1 characters that generate keeps.
C11_Deterministic ==
  /\ SameSequences
  /\ \A i \in Instances :
       Len(twins[i].outs) >= 2 =>
         /\ twins[i].inputs[1] # twins[i].inputs[2]
         /\ twins[i].outs[1] = twins[i].outs[2]
              <=> SubSeq(DigestText(twins[i].inputs[1]), 3, twinArgs.length + 1)
                    = SubSeq(DigestText(twins[i].inputs[2]), 3, twinArgs.length + 1)

\* C11 witness: two instances of length 10 over "test-fingerprint" have each
\* made all their calls at one and the same time, and their first and second
\* strings differ.
C11_Witness ==
  /\ twinArgs.length = 10
  /\ twinArgs.fingerprint = TestFingerprint
  /\ twinArgs.times[1] = twinArgs.times[2]
  /\ \A i \in Instances : Len(twins[i].outs) = MaxCalls
  /\ twins[1].outs[1] # twins[1].outs[2]
  /\ twins[1].outs = twins[2].outs

\* C13 (as claimed): a generator that Init returned with a nil error never
\* panics, whatever its randomness source returns on later calls.
C13_NeverPanics ==
  (generateFn = "generator" /\ initErr = "nil") => ~panicked

\* the draws that the call of the next step makes from the default source
DrawsNeeded ==
  IF generateFn = "none" THEN 1 + MaxIdLength
  ELSE IF config.RandomFunc = DefaultRandomFunc THEN 1 + g.length
  ELSE 0

\* C14: a call whose draws from the default source outrun what the OS
\* entropy source answers ends in a panic: Init returns nothing, generate
\* returns no string, and the draws made are the ones the OS answered, no
\* more; a call whose draws are all answered does not panic.
C14_EntropyFailureIsFatal ==
  [][IF entropyLeft < DrawsNeeded
     THEN /\ panicked'
          /\ outs' = outs
          /\ hashed' = hashed
          /\ generateFn' = generateFn
          /\ osDraws' = osDraws + entropyLeft
          /\ entropyLeft' = 0
     ELSE /\ ~panicked'
          /\ osDraws' = osDraws + DrawsNeeded
          /\ entropyLeft' = entropyLeft - DrawsNeeded
          /\ generateFn # "none" => Len(outs') = Len(outs) + 1]_vars

\* C14 witness: after one identifier, the source failed in the salt of the
\* second call: the call panicked, its increment done, and returned nothing.
C14_Witness ==
  /\ panicked
  /\ generateFn = "generator"
  /\ entropyLeft = 0
  /\ Len(outs) = 1
  /\ counterValue = Plus64(hashed[1].count, 1)

\* C15: after Init returned, a step changes neither the generator's length,
\* fingerprint and counter object nor the configuration with its randomness
\* source; a call that returns a string has added exactly 1 to the counter,
\* and no step changes the counter in another way.
C15_OnlyCounterChanges ==
  [][generateFn = "generator" =>
       /\ g' = g
       /\ config' = config
       /\ generateFn' = generateFn
       /\ Len(outs') = Len(outs) + 1 => counterValue' = Plus64(counterValue, 1)
       /\ counterValue' \in {counterValue, Plus64(counterValue, 1)}]_vars

\* C15 witness: a generator over a counter the caller made has returned all
\* its strings, the counter standing that many above its seed.
C15_Witness ==
  /\ generateFn = "generator"
  /\ Len(options) = 1
  /\ options[1].kind = "WithSessionCounter"
  /\ Len(outs) = MaxCalls
  /\ counterValue = Plus64(options[1].seed, MaxCalls)
  /\ g.counter = "user"

\* the value the source of a call returned on its i-th draw, i from 0
DrawOf(h, i) == h.rf.cycle[((h.rf.pos + i) % Len(h.rf.cycle)) + 1]

\* the leading letter of a call: the letter at floor(r * 26) for its first draw
LetterOf(h) == 97 + ((DrawOf(h, 0) * 26) \div FloatDen)

\* the calls that returned a string, of a generator Init returned
ReturnedCalls == IF generateFn = "generator" THEN 1..Len(outs) ELSE {}

SaltOf(h, n) == [i \in 1..n |-> Digit36((DrawOf(h, i) * 36) \div FloatDen)]

\* C17: the string hashed by a call is the base-36 text of the time in
\* milliseconds, the salt of the configured length, the base-36 text of the
\* value the call's increment returned, and the fingerprint, in this order
\* with nothing between them; the increments return consecutive values.
C17_HashInputLayout ==
  /\ \A k \in ReturnedCalls :
       /\ hashed[k].hashInput =
            FormatInt(hashed[k].timeMs, Base36) \o SaltOf(hashed[k], g.length)
              \o FormatInt(hashed[k].count, Base36) \o g.fingerprint
       /\ hashed[k].count = Plus64(hashed[1].count, k - 1)
  /\ (ReturnedCalls # {} /\ ~panicked) => hashed[Len(hashed)].count = counterValue

\* C17 witness: two calls at a time past zero of a generator whose
\* fingerprint is "fp", drawing different salt digits.
C17_Witness ==
  /\ generateFn = "generator"
  /\ g.fingerprint = <<102, 112>>
  /\ Len(hashed) = MaxCalls
  /\ hashed[1].timeMs # I64(0)
  /\ \E i, j \in 1..g.length :
       SaltOf(hashed[1], g.length)[i] # SaltOf(hashed[1], g.length)[j]

\* C18: createEntropy(n, source), the source in [0, 1), returns exactly n
\* characters, the i-th the base-36 digit of floor(r_i * 36) for the i-th
\* draw r_i, after exactly n draws; for n = 0 the empty string, no draw made.
C18_EntropyExact ==
  entropyRet # <<>> =>
    LET n == entropyArgs.length
        in == entropyArgs.rf
        out == entropyRet[1]
    IN /\ Len(out.str) = n
       /\ \A i \in 1..n :
            out.str[i] =
              Digit36((in.cycle[((in.pos + i - 1) % Len(in.cycle)) + 1] * 36)
                        \div FloatDen)
       /\ out.rf.cycle = in.cycle
       /\ out.rf.pos = in.pos + n
       /\ n = 0 => (out.str = <<>> /\ out.rf = in)

\* C18 witness: a call for 40 characters returned, a 9 and an a among them.
C18_Witness ==
  /\ entropyRet # <<>>
  /\ entropyArgs.length = MaxIdLength + 8
  /\ \E i, j \in 1..Len(entropyRet[1].str) :
       entropyRet[1].str[i] = 57 /\ entropyRet[1].str[j] = 97

\* the name of an entry: the text before its first '='
NameOf(entry) ==
  SubSeq(entry, 1,
         (CHOOSE i \in 1..Len(entry) :
            entry[i] = 61 /\ \A j \in 1..(i - 1) : entry[j] # 61) - 1)
NamesOf(env) == {NameOf(env[i]) : i \in 1..Len(env)}

\* the names of a set in ascending order, one after the other
SortedConcat(names) ==
  Join(CHOOSE seq \in [1..Cardinality(names) -> names] :
         \A i, j \in 1..Cardinality(names) : i < j => LessStr(seq[i], seq[j]))

\* C19: when getEnvironmentKeyString returns, what it returns is the names
\* of the environment in ascending order, concatenated with nothing between
\* them: two enumerations of the same names, in whatever order and with
\* whatever values, give the same string.
C19_NamesOnly ==
  (envRet # <<>> /\ ~envRet[1].panic /\ ~envRet[2].panic) =>
    /\ NamesOf(envArgs[1]) = NamesOf(envArgs[2])
    /\ envRet[1].str = envRet[2].str
    /\ envRet[1].str = SortedConcat(NamesOf(envArgs[1]))

\* C19 witness: two enumerations that start with different names and differ
\* in a value gave the same string, which is not empty.
C19_Witness ==
  /\ envRet # <<>>
  /\ ~envRet[1].panic
  /\ Len(envArgs[1]) = 2
  /\ NameOf(envArgs[1][1]) # NameOf(envArgs[2][1])
  /\ \A i \in 1..2 : ~(envArgs[1][i] \in {envArgs[2][1], envArgs[2][2]})
  /\ envRet[1].str = envRet[2].str
  /\ envRet[1].str # <<>>

\* floor(r * 476782367) for the first value r of each default source
DefaultSeeds ==
  {(c[1] * (MaxSessionCount \div FloatDen))
     + ((c[1] * (MaxSessionCount % FloatDen)) \div FloatDen) :
   c \in DefaultCycles}

\* C20: the counter Init creates starts at v = floor(r * 476782367) for the
\* first draw r of the default source, 0 <= v < 476782367, and the first
\* identifier uses v + 1.
C20_DefaultSeedRange ==
  (generateFn = "generator" /\ config.SessionCounter = "default") =>
    /\ IsSmall64(counterValue)
    /\ LET v == IntOf(counterValue) - Len(hashed)
       IN /\ v \in DefaultSeeds
          /\ 0 <= v
          /\ v < MaxSessionCount
          /\ Len(hashed) >= 1 => IntOf(hashed[1].count) = v + 1

\* C20 witness: the default source's first draw was its greatest, and the
\* first identifier used the seed plus one.
C20_Witness ==
  /\ generateFn = "generator"
  /\ config.SessionCounter = "default"
  /\ Len(hashed) = MaxCalls
  /\ IntOf(hashed[1].count) = MaxSessionCount - (MaxSessionCount \div FloatDen)

\* the step in which goroutine p's atomic.AddInt64 takes effect
AddStep(p) == incPc[p] = "entered" /\ incPc'[p] = "added"

\* C21 as stated: every Increment returns a value strictly greater than
\* every value Increment handed out before on the same counter, whatever the
\* seed, and the stored value never decreases.
C21_AlwaysIncreasing ==
  [][/\ ~Less64(counterValue', counterValue)
     /\ \A p \in Goroutines :
          AddStep(p) => \A h \in Handed : Less64(h, added'[p])]_vars

\* C21: an Increment on a stored value other than the greatest int64 stores
\* and returns a strictly greater value, greater than every value handed out
\* before unless one of those was the greatest int64; the Increment on the
\* greatest int64 stores and returns the least int64; no other step changes
\* the stored value.
C21_IncreasingUntilWrap ==
  [][/\ (\A p \in Goroutines : ~AddStep(p)) => counterValue' = counterValue
     /\ \A p \in Goroutines :
          AddStep(p) =>
            /\ added'[p] = counterValue'
            /\ IF counterValue = MaxInt64
               THEN counterValue' = MinInt64
               ELSE Less64(counterValue, counterValue')
            /\ ~(MaxInt64 \in Handed) =>
                 \A h \in Handed : Less64(h, added'[p])]_vars

\* C21 witness: three calls on a counter seeded below zero have returned,
\* each more than the one before, the last one past zero.
C21_Witness ==
  /\ seed = I64(-2)
  /\ Len(returns) = MaxIncrements
  /\ \A j, k \in 1..Len(returns) :
       j < k => Less64(returns[j].ret, returns[k].ret)
  /\ Less64(I64(0), returns[Len(returns)].ret)

\* the initializer has run and left defaultGenerator nil: Init panicked
InitPanicked == initRuns >= 1 /\ generateFn = "none"

\* goroutine p's call of Generate ends in this step
GenerateEnds(p) == genPc[p] # "idle" /\ genPc'[p] = "idle"

\* C22: Init runs at most once for the default generator; once it has
\* panicked, the Once becomes and stays spent, defaultGenerator stays nil,
\* Init does not run again, and every call of Generate that ends, ends in a
\* panic and returns no identifier, even when the entropy source is back.
C22_PanickedInitIsSpent ==
  [][/\ initRuns' <= 1
     /\ InitPanicked =>
          /\ InitPanicked'
          /\ initRuns' = initRuns
          /\ done = 1 => done' = 1
          /\ (\A p \in Goroutines : ~(genPc'[p] \in {"StorePanicking", "f"}))
               => done' = 1
          /\ outs' = <<>>
          /\ calls' = <<>>
          /\ \A p \in Goroutines :
               GenerateEnds(p) =>
                 /\ Len(panics') = Len(panics) + 1
                 /\ panics'[Len(panics')].by = p]_vars

\* C22 witness: the first call of Generate panicked inside Init, the entropy
\* source came back, and the next call panicked on the nil defaultGenerator
\* without running Init again.
C22_Witness ==
  /\ Len(panics) = 2
  /\ panics[1].in = "Init"
  /\ panics[2].in = "nil"
  /\ entropyLeft = Unlimited
  /\ initRuns = 1
  /\ done = 1
  /\ outs = <<>>

\* two calls that returned, at the same time and with the same salt
SameTimeAndSalt(j, k) ==
  /\ j # k
  /\ hashed[j].timeMs = hashed[k].timeMs
  /\ SaltOf(hashed[j], g.length) = SaltOf(hashed[k], g.length)

\* the part of a call's hash input that follows the time and the salt
AfterSalt(h) ==
  SubSeq(h.hashInput, Len(FormatInt(h.timeMs, Base36)) + g.length + 1,
         Len(h.hashInput))

\* C23: two calls of one generator at the same timestamp and with the same
\* salt hash different strings: the inputs agree up to the end of the salt
\* and end in the same fingerprint, and between the two stand the base-36
\* texts of two different counter values.
C23_CounterSeparatesInputs ==
  \A j, k \in ReturnedCalls :
    SameTimeAndSalt(j, k) =>
      /\ hashed[j].hashInput # hashed[k].hashInput
      /\ hashed[j].count # hashed[k].count
      /\ FormatInt(hashed[j].count, Base36) # FormatInt(hashed[k].count, Base36)
      /\ SubSeq(hashed[j].hashInput, 1,
                Len(hashed[j].hashInput) - Len(AfterSalt(hashed[j])))
           = SubSeq(hashed[k].hashInput, 1,
                    Len(hashed[k].hashInput) - Len(AfterSalt(hashed[k])))
      /\ AfterSalt(hashed[j]) = FormatInt(hashed[j].count, Base36) \o g.fingerprint
      /\ AfterSalt(hashed[k]) = FormatInt(hashed[k].count, Base36) \o g.fingerprint

\* C23 witness: the default counter's generator was called twice at the same
\* time past zero and drew the same salt both times.
C23_Witness ==
  /\ generateFn = "generator"
  /\ config.SessionCounter = "default"
  /\ Len(hashed) = 2
  /\ SameTimeAndSalt(1, 2)
  /\ hashed[1].timeMs # I64(0)
  /\ g.fingerprint # <<>>

====
